---- MODULE Spec2Model ----
(***************************************************************************)
(* State-machine model of the guided-learning chat of AI Java Tutor Pro:   *)
(* components/question_mode.py (turn processing, scaffolding, context      *)
(* composition), utils/java_code_validator.py (regex signature check and   *)
(* token content check), utils/gamification.py (XP) and the proficiency    *)
(* selector of components/sidebar.py.                                      *)
(*                                                                         *)
(* Texts are TLA+ strings; a character is a string of length 1.            *)
(***************************************************************************)
EXTENDS Integers, Sequences, FiniteSets, TLC

(***************************************************************************)
(* State.                                                                  *)
(***************************************************************************)

VARIABLES
    clock,                     \* the calendar day datetime.now() is in
    sessions,                  \* the sessions that are open
    current_persona,           \* st.session_state.current_persona, per session
    chat_history,              \* st.session_state.chat_history
    tutor_step,                \* st.session_state.tutor_step
    user_progress,             \* st.session_state.user_progress
    current_expected_pattern,  \* st.session_state['current_expected_pattern']
    show_reward,               \* st.session_state.show_reward
    crew_call,                 \* the call of create_crew the last chat operation
                               \* of the session made (its arguments), <<>> if none
    event,                     \* history: the last chat operation (a turn or
                               \* Clear Chat), its input and the step state before
    failed_submissions,        \* history: validated-incorrect submissions on the
                               \* exercise since the last correct one or reset
    decision                   \* history: the last scaffolding decision composed

vars == <<clock, sessions, current_persona, chat_history, tutor_step, user_progress,
          current_expected_pattern, show_reward, crew_call, event,
          failed_submissions, decision>>

(***************************************************************************)
(* Text primitives (Python str operations used by the source).             *)
(***************************************************************************)

\* s[i] as a one-character string, 1-based
CharAt(s, i) == SubSeq(s, i, i)

UpperChars == <<"A","B","C","D","E","F","G","H","I","J","K","L","M",
                "N","O","P","Q","R","S","T","U","V","W","X","Y","Z">>
LowerChars == <<"a","b","c","d","e","f","g","h","i","j","k","l","m",
                "n","o","p","q","r","s","t","u","v","w","x","y","z">>
Digits == {"0","1","2","3","4","5","6","7","8","9"}

\* the characters regex \w matches (ASCII texts)
WordChars == {UpperChars[k] : k \in 1..26} \cup {LowerChars[k] : k \in 1..26}
             \cup Digits \cup {"_"}

\* the characters regex \s matches (the texts of the model use these three)
SpaceChars == {" ", "\n", "\t"}

IsSpace(c) == c \in SpaceChars

IsWord(c) == c \in WordChars

\* str.lower() on the upper-case letters
LowerMap == [c \in {UpperChars[k] : k \in 1..26} |->
                LowerChars[CHOOSE k \in 1..26 : UpperChars[k] = c]]

\* str.lower() of one character
LowerChar(c) == IF c \in DOMAIN LowerMap THEN LowerMap[c] ELSE c

\* the concatenation of f[lo], ..., f[hi], by halving (the evaluation depth
\* stays logarithmic in the length of the text)
RECURSIVE Concat(_, _, _)
Concat(f, lo, hi) ==
    IF lo > hi THEN ""
    ELSE IF lo = hi THEN f[lo]
    ELSE LET mid == (lo + hi) \div 2
         IN Concat(f, lo, mid) \o Concat(f, mid + 1, hi)

\* str.lower()
Lower(s) == Concat([i \in 1..Len(s) |-> LowerChar(CharAt(s, i))], 1, Len(s))

\* pat occurs in s at position i
OccursAt(s, pat, i) ==
    /\ i >= 1
    /\ i + Len(pat) - 1 <= Len(s)
    /\ SubSeq(s, i, i + Len(pat) - 1) = pat

\* Python `pat in s`
Contains(s, pat) == \E i \in 1..(Len(s) + 1) : OccursAt(s, pat, i)

\* the least element of a non-empty set of positions
Least(S) == CHOOSE i \in S : \A j \in S : i <= j

\* the greatest element of a non-empty set of positions
Greatest(S) == CHOOSE i \in S : \A j \in S : i >= j

\* str.strip()
Strip(s) ==
    LET nonspace == {i \in 1..Len(s) : ~IsSpace(CharAt(s, i))}
    IN IF nonspace = {} THEN ""
       ELSE SubSeq(s, Least(nonspace), Greatest(nonspace))

\* re.sub(r'\s+', ' ', s): every maximal run of whitespace becomes one blank
CollapseSpaces(s) ==
    Concat([i \in 1..Len(s) |->
               IF ~IsSpace(CharAt(s, i)) THEN CharAt(s, i)
               ELSE IF i > 1 /\ IsSpace(CharAt(s, i - 1)) THEN ""
               ELSE " "], 1, Len(s))

\* _normalize_whitespace
NormalizeWhitespace(s) == Strip(CollapseSpaces(s))

(***************************************************************************)
(* utils/java_code_validator.py                                            *)
(***************************************************************************)

\* the alternatives of group 1 of sig_re, in the order the regex tries them
SigModifiers == <<"public", "protected", "private", "static", " ">>

\* the character class of group 2 of sig_re: [\w\<\>\[\]\s,]
IsReturnTypeChar(c) == IsWord(c) \/ IsSpace(c) \/ c \in {"<", ">", "[", "]", ","}

\* position of the first ")" at or after position i, 0 if there is none
FirstCloseParen(code, i) ==
    LET closing == {r \in i..Len(code) : CharAt(code, r) = ")"}
    IN IF closing = {} THEN 0 ELSE Least(closing)

\* start of the maximal run of \w characters that ends just before position e
WordStart(code, e) ==
    LET breaks == {j \in 1..(e - 1) : ~IsWord(CharAt(code, j))}
    IN IF breaks = {} THEN 1 ELSE Greatest(breaks) + 1

\* start of the maximal run of group-2 characters that contains position j
RunStart(code, j) ==
    LET breaks == {k \in 1..(j - 1) : ~IsReturnTypeChar(CharAt(code, k))}
    IN IF breaks = {} THEN 1 ELSE Greatest(breaks) + 1

\* end (exclusive) of the method name in front of the "(" at position q:
\* the \s* of sig_re takes the one blank normalised code can have there
NameEnd(code, q) == IF q > 1 /\ CharAt(code, q - 1) = " " THEN q - 1 ELSE q

\* sig_re can match with its "\(" on position q:  ... \s+ (\w+) \s* \( [^)]* \)
\* needs a ")" after q, a name in front of q, whitespace in front of the name and
\* a group-2 character in front of that whitespace
HeaderAt(code, q) ==
    /\ CharAt(code, q) = "("
    /\ FirstCloseParen(code, q + 1) # 0
    /\ LET e == NameEnd(code, q)
           ws == WordStart(code, e)
       IN /\ ws < e
          /\ ws >= 3
          /\ IsSpace(CharAt(code, ws - 1))
          /\ IsReturnTypeChar(CharAt(code, ws - 2))

\* re.search: the leftmost match. A match runs over group-2 characters only up
\* to its "(", so the leftmost match is the one of the first "(" that has one.
FirstHeader(code) ==
    LET headers == {q \in 1..Len(code) : HeaderAt(code, q)}
    IN IF headers = {} THEN 0 ELSE Least(headers)

\* the alternative of group 1 that matches at position p ("" if none does)
ModifierAt(code, p) ==
    IF \E k \in 1..Len(SigModifiers) : OccursAt(code, SigModifiers[k], p)
    THEN SigModifiers[CHOOSE k \in 1..Len(SigModifiers) :
                         /\ OccursAt(code, SigModifiers[k], p)
                         /\ \A j \in 1..(k - 1) : ~OccursAt(code, SigModifiers[j], p)]
    ELSE ""

\* where the greedy group 1, (public|protected|private|static|\s)*, stops when
\* started at p: it repeats while an alternative matches and at least one
\* character is left for group 2 (whose last character is on position last)
RECURSIVE ModifiersEnd(_, _, _)
ModifiersEnd(code, p, last) ==
    LET m == ModifierAt(code, p)
    IN IF m # "" /\ p + Len(m) <= last
       THEN ModifiersEnd(code, p + Len(m), last)
       ELSE p

\* re.search(sig_re, code) on normalised code: the groups 2, 3, 4 of the match
SigSearch(code) ==
    LET q == FirstHeader(code)
    IN IF q = 0 THEN [found |-> FALSE, ret |-> "", name |-> "", params |-> ""]
       ELSE LET e == NameEnd(code, q)
                ws == WordStart(code, e)
                start == ModifiersEnd(code, RunStart(code, ws - 2), ws - 2)
                r == FirstCloseParen(code, q + 1)
            IN [found |-> TRUE,
                ret |-> SubSeq(code, start, ws - 2),
                name |-> SubSeq(code, ws, e - 1),
                params |-> SubSeq(code, q + 1, r - 1)]

\* str.split(','): the pieces between the commas
RECURSIVE SplitComma(_)
SplitComma(s) ==
    IF \E i \in 1..Len(s) : CharAt(s, i) = ","
    THEN LET i == CHOOSE k \in 1..Len(s) :
                     /\ CharAt(s, k) = ","
                     /\ \A j \in 1..(k - 1) : CharAt(s, j) # ","
         IN <<SubSeq(s, 1, i - 1)>> \o SplitComma(SubSeq(s, i + 1, Len(s)))
    ELSE <<s>>

\* ' '.join(p.split()[:-1]) for a stripped parameter p of normalised code:
\* everything before the last blank, "" when p is a single token
TypeTokens(p) ==
    LET blanks == {i \in 1..Len(p) : CharAt(p, i) = " "}
    IN IF blanks = {} THEN "" ELSE SubSeq(p, 1, Greatest(blanks) - 1)

\* types_found: the type tokens of the parameters that have any
TypesFound(found_params) ==
    LET parts == SplitComma(found_params)
        param_tokens == SelectSeq([i \in 1..Len(parts) |-> Strip(parts[i])],
                                  LAMBDA p : p # "")
        types == [i \in 1..Len(param_tokens) |-> TypeTokens(param_tokens[i])]
    IN SelectSeq(types, LAMBDA t : t # "")

\* variant: the method name is compared without regard to case
signature_check_any_case(student_code, method_name, return_type, param_types) ==
    LET code == NormalizeWhitespace(student_code)
        m == SigSearch(code)
    IN /\ m.found
       /\ method_name # "" => Lower(m.name) = Lower(method_name)
       /\ return_type # "" => Contains(NormalizeWhitespace(m.ret), return_type)
       /\ \A k \in 1..Len(param_types) :
              \E i \in 1..Len(TypesFound(Strip(m.params))) :
                  Contains(TypesFound(Strip(m.params))[i], param_types[k])

\* signature_check(student_code, method_name, return_type, param_types).
\* The code tests its optional arguments by truth value only, so an unset
\* (None) method_name or return_type is "" and unset param_types is <<>>.
signature_check(student_code, method_name, return_type, param_types) ==
    LET code == NormalizeWhitespace(student_code)
        m == SigSearch(code)
    IN IF ~m.found THEN FALSE
       ELSE LET found_return == NormalizeWhitespace(m.ret)
                found_name == m.name
                found_params == Strip(m.params)
                types_found == TypesFound(found_params)
            IN IF method_name # "" /\ found_name # method_name
                  THEN FALSE
               ELSE IF return_type # "" /\ ~Contains(found_return, return_type)
                  THEN FALSE
               ELSE \A k \in 1..Len(param_types) :
                       \E i \in 1..Len(types_found) :
                           Contains(types_found[i], param_types[k])

\* variant: the tokens are compared with regard to case
content_check_case_sensitive(student_code, required_tokens, forbidden_tokens) ==
    /\ \A k \in 1..Len(required_tokens) : Contains(student_code, required_tokens[k])
    /\ \A k \in 1..Len(forbidden_tokens) : ~Contains(student_code, forbidden_tokens[k])

\* content_check(student_code, required_tokens, forbidden_tokens)
content_check(student_code, required_tokens, forbidden_tokens) ==
    LET code_lower == Lower(student_code)
    IN /\ \A k \in 1..Len(required_tokens) :
              Contains(code_lower, Lower(required_tokens[k]))
       /\ \A k \in 1..Len(forbidden_tokens) :
              ~Contains(code_lower, Lower(forbidden_tokens[k]))

\* ast_check_using_javalang: the branch the code takes when `import javalang`
\* fails (lines 72-75). initialize_validator builds its validator with
\* use_ast_check=False, so no turn of the chat reaches this function.
ast_check_using_javalang(student_code, expected_method_name) == FALSE

\* java_validator_factory(...): the configuration the returned closure captures
java_validator_factory(method_name, return_type, param_types, required_tokens, forbidden_tokens, use_ast_check) ==
    [method_name |-> method_name, return_type |-> return_type,
     param_types |-> param_types, required_tokens |-> required_tokens,
     forbidden_tokens |-> forbidden_tokens, use_ast_check |-> use_ast_check]

\* variant: the content check is left out when a signature is configured
validator_signature_first(cfg, student_answer) ==
    IF cfg.method_name # "" \/ cfg.return_type # "" \/ cfg.param_types # <<>>
    THEN signature_check(student_answer, cfg.method_name, cfg.return_type,
                         cfg.param_types)
    ELSE IF cfg.required_tokens # <<>> \/ cfg.forbidden_tokens # <<>>
    THEN content_check(student_answer, cfg.required_tokens, cfg.forbidden_tokens)
    ELSE TRUE

\* the closure validator(student_answer) of java_validator_factory, cfg being
\* the captured configuration
validator(cfg, student_answer) ==
    LET code == student_answer
    IN IF /\ (cfg.method_name # "" \/ cfg.return_type # "" \/ cfg.param_types # <<>>)
          /\ ~signature_check(code, cfg.method_name, cfg.return_type, cfg.param_types)
          THEN FALSE
       ELSE IF /\ (cfg.required_tokens # <<>> \/ cfg.forbidden_tokens # <<>>)
               /\ ~content_check(code, cfg.required_tokens, cfg.forbidden_tokens)
          THEN FALSE
       ELSE IF /\ cfg.use_ast_check /\ cfg.method_name # ""
               /\ ~ast_check_using_javalang(code, cfg.method_name)
          THEN FALSE
       ELSE TRUE

(***************************************************************************)
(* Bounds and inputs of the model.                                         *)
(***************************************************************************)

\* a turn is taken only while the chat history has room for its two entries
MaxHistory == 8

\* the decision function is tabulated for attempts 0..MaxAttempts
MaxAttempts == 6

\* a session has at most MaxSolved solutions accepted (its XP grow with each)
MaxSolved == 2

\* a chat history holds at most MaxCrewFailures turns whose create_crew raised
MaxCrewFailures == 1

\* two sessions open at once hold at most this many chat entries together
MaxSharedHistory == 4

\* the days of the calendar the progress is followed over, and the xp it may
\* reach
MaxDay == 8
MaxXp == 130

\* the longest chat history handed to build_efficient_chat_context on its own
MaxContextMessages == 22

\* browser sessions the Streamlit server can hold
Sessions == {1, 2}

\* the keys of agents.yaml (the personas the selector offers)
Personas == {"Nova", "Batman"}

\* the options of the proficiency selector of the sidebar
Proficiencies == {"Beginner", "Intermediate", "Advanced"}

\* what the student types: prose, a solution the exercise's validator accepts,
\* and one it rejects
ProseInput == "how do I add two numbers?"
CorrectCode == "public int sum(int a, int b) { return a + b; }"
WrongCode == "public int sum(int a, int b) { return a - b; }"
UserInputs == {ProseInput, CorrectCode, WrongCode}

\* raw replies of the language model
ModelReplies == {"<think>plan the hint</think>\nWhat should the method return?"}

\* how a call of create_crew ends: it returns the cleaned reply, or it raises
\* (the model call fails)
CrewOutcomes == {[raised |-> TRUE, raw |-> ""]}
                \cup {[raised |-> FALSE, raw |-> r] : r \in ModelReplies}

\* texts the validator functions are called with on their own: "" is also what
\* the validator makes of a missing (None) answer, `student_answer or ""`
EmptyText == ""
NoHeaderCode == "int x = 5;"
VoidSum == "public void sum()"
UpperCaseCode == "public int Sum(int a, int b) { RETURN a + b; }"
StreamCode == "public List<Integer> doubleNumbers(List<Integer> nums) { return nums.stream().map(n -> n*2).collect(Collectors.toList()); }"
CodeTexts == {EmptyText, ProseInput, NoHeaderCode, CorrectCode, WrongCode,
              VoidSum, UpperCaseCode, StreamCode}

\* a method whose parameters come in the other order than the expected types
SwappedParams == "static int sum(List<Integer> xs, int n) { return n; }"
SignatureTexts == CodeTexts \cup {SwappedParams}

\* expected signatures signature_check is called with on its own ("" and <<>>
\* are unset arguments)
ExpectedNames == {"", "sum"}
ExpectedReturnTypes == {"", "int", "void"}
ExpectedParamTypes == {<<>>, <<"int", "int">>, <<"int", "List">>, <<"String">>}

\* messages looks_like_code is called with on its own
OnlyParen == "sum(a, b)"
OnlyBrace == "}"
ProseWithList == "Please LIST the steps"
MessageTexts == CodeTexts \cup {OnlyParen, OnlyBrace, ProseWithList}

\* token lists content_check is called with on its own (<<>> is unset)
RequiredTokenLists == {<<>>, <<"stream", "map">>, <<"+", "return">>, <<"Return">>}
ForbiddenTokenLists == {<<>>, <<"-">>, <<"STREAM">>}

\* raw texts of the language model format_response is called with on its own:
\* a reply with one think block, one without, one with two blocks, one whose
\* think block sits inside the letters of another opening tag, and a reply
\* with an indented code block
SplitTagReply == "<thi<think>a</think>nk>the answer is a + b</think>Try it."
ModelRawTexts ==
    ModelReplies
    \cup {"What should the method return?",
          "<think>one</think>First.<think>two</think>\nSecond.",
          SplitTagReply,
          "<think>plan</think>\nUse public static:\n    int s = a + b;\n    return s;\nTry it."}

(***************************************************************************)
(* components/question_mode.py: scaffolding and context composition.       *)
(* A Python None is the empty tuple <<>>; the tuple (is_correct, msg) is   *)
(* <<is_correct, msg>>; an optional object v is <<v>>.                     *)
(***************************************************************************)

\* the entries of `strategies` and the default of strategies.get (the warning
\* sign emoji of the source is left out of the texts)
StrategyFirst ==
    "FIRST INTERACTION - Set Direction ONLY:\n"
    \o "DO NOT provide any code yet - just guide conceptually!\n"
    \o "- Acknowledge what they want to build\n"
    \o "- Break it into 2-3 concrete sub-steps (e.g., \"1. Create method signature, 2. Add the logic, 3. Return the result\")\n"
    \o "- Give ONE tiny conceptual hint (e.g., \"You'll need to use the + operator\")\n"
    \o "- Ask them to try writing the method signature first\n"
    \o "- FORBIDDEN: Do NOT show ANY code structure or method templates"

StrategySecond ==
    "SECOND INTERACTION - Targeted Hints ONLY:\n"
    \o "Still NO complete code - just specific guidance!\n"
    \o "- Point out specifically what's missing or wrong in their attempt\n"
    \o "- Provide API/operator hints (e.g., \"You'll need the + operator to add two numbers\")\n"
    \o "- Show ONLY the method signature if they're struggling with it\n"
    \o "- Ask them to try implementing the body\n"
    \o "- FORBIDDEN: Do NOT show the method body or return statement"

StrategyThird ==
    "THIRD INTERACTION - Partial Code with Blanks:\n"
    \o "NOW you can show partial code, but with blanks to fill in:\n"
    \o "- Give a partial implementation like: \"public int sum(int a, int b) { return ____ + ____; }\"\n"
    \o "- Explain what each blank should be\n"
    \o "- Ask them to fill in the blanks"

StrategyFourth ==
    "FOURTH INTERACTION - Working Solution:\n"
    \o "NOW provide the complete working solution:\n"
    \o "- Show full working code\n"
    \o "- Explain each line\n"
    \o "- Ask them to modify it slightly (e.g., \"Now try multiplying instead\")"

StrategyFifthPlus ==
    "FIFTH+ INTERACTION - Deep Understanding:\n"
    \o "- Help them understand variations or debug their modifications\n"
    \o "- Suggest extensions and edge cases\n"
    \o "- Keep encouraging exploration"

\* the dict `strategies` of get_scaffolding_strategy
strategies == (0 :> StrategyFirst) @@ (1 :> StrategySecond)
              @@ (2 :> StrategyThird) @@ (3 :> StrategyFourth)

\* variant: the four strategies are reused in a cycle
strategy_cycling(attempt_number) == strategies[attempt_number % 4]

\* variant: the working solution stays the strategy from the fourth turn on
strategy_full_from_three(attempt_number) ==
    IF attempt_number \in 0..2 THEN strategies[attempt_number] ELSE StrategyFourth

\* variant: the lookup is one attempt ahead
strategy_one_ahead(attempt_number) ==
    IF attempt_number + 1 \in DOMAIN strategies
    THEN strategies[attempt_number + 1]
    ELSE StrategyFifthPlus

\* variant: the second interaction repeats the strategy of the first
strategy_guide_twice(attempt_number) ==
    IF attempt_number = 1 THEN StrategyFirst
    ELSE IF attempt_number \in DOMAIN strategies THEN strategies[attempt_number]
    ELSE StrategyFifthPlus

\* get_scaffolding_strategy(attempt_number): strategies.get(attempt_number, default)
get_scaffolding_strategy(attempt_number) ==
    IF attempt_number \in DOMAIN strategies
    THEN strategies[attempt_number]
    ELSE StrategyFifthPlus

\* variant: an Advanced session is one attempt ahead
strategy_sooner_for_advanced(proficiency, attempts) ==
    get_scaffolding_strategy(IF proficiency = "Advanced" THEN attempts + 1 ELSE attempts)

\* the strategy of a turn in a session whose user_progress['proficiency'] is
\* proficiency: process_user_message hands tutor_step to
\* build_efficient_chat_context, which looks the strategy up by attempts alone
strategy_for(proficiency, attempts) == get_scaffolding_strategy(attempts)

\* variant: only the last four messages are written into the conversation
conversation_last_messages(history, persona) ==
    Concat([i \in 1..Len(history) |->
               (IF history[i].role = "user" THEN "Student" ELSE persona)
               \o ": " \o history[i].content \o "\n\n"],
           IF Len(history) > 4 THEN Len(history) - 3 ELSE 1, Len(history))

\* build_conversation_history(chat_history, persona); the parameter chat_history
\* is named history here
build_conversation_history(history, persona) ==
    Concat([i \in 1..Len(history) |->
               (IF history[i].role = "user" THEN "Student" ELSE persona)
               \o ": " \o history[i].content \o "\n\n"],
           1, Len(history))

\* build_validation_feedback(validation_result, attempt_number)
build_validation_feedback(validation_result, attempt_number) ==
    IF validation_result = <<>> THEN ""
    ELSE IF validation_result[1]
    THEN "\n**VALIDATION: CODE IS CORRECT - Student solved it! Congratulate and move to next challenge.**"
    ELSE "\n**VALIDATION: Code has issues - " \o validation_result[2] \o "**\n"
         \o "**Continue guiding based on attempt #" \o ToString(attempt_number + 1)
         \o " strategy below.**"

\* the fixed rules 1-7 under "CRITICAL RULES - FOLLOW EXACTLY:"
CriticalRules ==
    "CRITICAL RULES - FOLLOW EXACTLY:\n"
    \o "1. READ the conversation history above to see what you already said\n"
    \o "2. If validation shows CORRECT: Congratulate and stop giving hints\n"
    \o "3. If validation shows INCORRECT: Follow the scaffolding strategy EXACTLY as written above\n"
    \o "4. DO NOT SKIP AHEAD - If strategy says \"no code yet\", then give NO code\n"
    \o "5. NEVER repeat yourself - each response should add new information only\n"
    \o "6. Keep responses under 150 words and conversational\n"
    \o "7. Always end with a specific question or directive"

\* the texts build_efficient_chat_context fills its f-string with
context_parts(history, persona, step_info, validation_result) ==
    LET attempts == step_info.attempts
        conversation == build_conversation_history(history, persona)
        feedback_section == build_validation_feedback(validation_result, attempts)
        strategy == get_scaffolding_strategy(attempts)
        latest_message == IF Len(history) > 0
                          THEN history[Len(history)].content
                          ELSE "N/A"
    IN [persona |-> "You are " \o persona \o ", an efficient Java tutor who guides students through problems progressively.",
        conversation |-> "CONVERSATION SO FAR:\n" \o conversation,
        situation |-> "CURRENT SITUATION:\n- This is attempt #" \o ToString(attempts + 1) \o " at the current step",
        feedback |-> feedback_section,
        strategy |-> "YOUR SCAFFOLDING STRATEGY FOR THIS ATTEMPT:\n" \o strategy,
        rules |-> CriticalRules,
        latest_message |-> "8. The student's latest message was: \"" \o latest_message \o "\"",
        respond |-> "You must follow the scaffolding level (attempt #" \o ToString(attempts) \o ") strictly. Respond as " \o persona \o ":"]

\* the order in which the f-string of build_efficient_chat_context writes them
TemplateOrder == <<"persona", "conversation", "situation", "feedback",
                   "strategy", "rules", "latest_message", "respond">>

\* the context as the sequence of its parts in the given order; the text sent
\* to the model is their concatenation
Compose(order, parts) ==
    [k \in 1..Len(order) |-> [part |-> order[k], text |-> parts[order[k]]]]

\* variant: the strategy and the rules are written before the conversation
context_rules_first(history, persona, step_info, validation_result) ==
    Compose(<<"persona", "strategy", "rules", "conversation", "situation",
              "feedback", "latest_message", "respond">>,
            context_parts(history, persona, step_info, validation_result))

\* build_efficient_chat_context(chat_history, persona, step_info, validation_result)
\* (chat_history is named history here)
build_efficient_chat_context(history, persona, step_info, validation_result) ==
    Compose(TemplateOrder, context_parts(history, persona, step_info, validation_result))

\* code_patterns of looks_like_code
code_patterns == <<"public", "private", "return", "void", "{", "list",
                   "stream", "int ", "=", ";", "class", "import">>

\* variant: the markers are the four keywords and the punctuation { } ( ) ;
looks_like_code_punctuation(text) ==
    \E marker \in {"public", "private", "return", "void", "{", "}", "(", ")", ";"} :
        Contains(Lower(text), marker)

\* looks_like_code(text)
looks_like_code(text) ==
    \E k \in 1..Len(code_patterns) : Contains(Lower(text), code_patterns[k])

\* initialize_validator: the validator of the exercise
initialize_validator ==
    <<java_validator_factory("sum", "int", <<"int", "int">>, <<"+", "return">>, <<>>, FALSE)>>

\* configurations java_validator_factory is called with on its own: the one of
\* initialize_validator, none, tokens only, a signature only, both, and two
\* with use_ast_check
ValidatorConfigs ==
    {initialize_validator[1],
     java_validator_factory("", "", <<>>, <<>>, <<>>, FALSE),
     java_validator_factory("", "", <<>>, <<"stream", "map">>, <<>>, FALSE),
     java_validator_factory("", "", <<>>, <<>>, <<"-">>, FALSE),
     java_validator_factory("sum", "int", <<>>, <<>>, <<>>, FALSE),
     java_validator_factory("sum", "", <<>>, <<"return">>, <<"-">>, FALSE),
     java_validator_factory("sum", "int", <<"int", "int">>, <<"+", "return">>, <<>>, TRUE),
     java_validator_factory("", "", <<>>, <<"return">>, <<>>, TRUE)}

\* Tabulations of the text functions over the inputs of the model: TLC
\* evaluates each table once instead of once per step.
LooksLikeCodeTable == [u \in UserInputs \cup CodeTexts |-> looks_like_code(u)]

ValidatorTable ==
    [cfg \in ValidatorConfigs |->
        [u \in UserInputs \cup CodeTexts |-> validator(cfg, u)]]

\* the message validate_code attaches to a validator result that is no tuple
NotQuiteRight == "Good attempt, but not quite right yet."

\* looks_like_code(user_input) and validator(user_input), read from the tables
message_looks_like_code(user_input) == LooksLikeCodeTable[user_input]

run_validator(cfg, user_input) == ValidatorTable[cfg][user_input]

\* variant: every message is handed to the validator
validate_any_message(user_input, the_validator) ==
    IF the_validator = <<>> THEN <<>>
    ELSE <<run_validator(the_validator[1], user_input), NotQuiteRight>>

\* variant: a text in which no method header is found gets no validation result
validate_code_needs_header(user_input, the_validator) ==
    IF the_validator = <<>> THEN <<>>
    ELSE IF ~message_looks_like_code(user_input) THEN <<>>
    ELSE IF ~SigSearch(NormalizeWhitespace(user_input)).found THEN <<>>
    ELSE <<run_validator(the_validator[1], user_input), NotQuiteRight>>

\* validate_code(user_input, validator): validator is <<>> (None) or <<cfg>>.
\* The validators of java_validator_factory return a bool, never a tuple.
validate_code(user_input, the_validator) ==
    IF the_validator = <<>> THEN <<>>
    ELSE IF ~message_looks_like_code(user_input) THEN <<>>
    ELSE <<run_validator(the_validator[1], user_input), NotQuiteRight>>

\* the dict `challenges` of get_next_challenge
challenges ==
    (1 :> "Ready for the next challenge? Try creating a method that **filters only even numbers** from a List<Integer> and returns them.")
    @@ (2 :> "Nice! Now let's level up. Can you **chain operations**: filter even numbers AND double them in the same stream?")
    @@ (3 :> "Excellent! Let's tackle error handling. Modify your method to **handle null input** gracefully (return empty list instead of crashing).")

\* get_next_challenge(step_id)
get_next_challenge(step_id) ==
    IF step_id \in DOMAIN challenges
    THEN challenges[step_id]
    ELSE "Want to try another Java concept? Just tell me what you'd like to learn!"

(***************************************************************************)
(* ai_hint_project/crew.py: the cleaning of the language model's reply.    *)
(***************************************************************************)

ThinkOpen == "<think>"
ThinkClose == "</think>"

\* re.sub(r"<think>.*?</think>\n?", "", text, flags=re.DOTALL): one pass from
\* the left; each match runs from a "<think>" to the first "</think>" after it
\* and takes one following newline when there is one
RECURSIVE RemoveThink(_)
RemoveThink(text) ==
    LET opens == {i \in 1..Len(text) :
                     /\ OccursAt(text, ThinkOpen, i)
                     /\ \E j \in (i + Len(ThinkOpen))..Len(text) :
                            OccursAt(text, ThinkClose, j)}
    IN IF opens = {} THEN text
       ELSE LET i == Least(opens)
                j == Least({k \in (i + Len(ThinkOpen))..Len(text) :
                               OccursAt(text, ThinkClose, k)})
                after == j + Len(ThinkClose)
                rest == IF after <= Len(text) /\ CharAt(text, after) = "\n"
                        THEN after + 1 ELSE after
            IN SubSeq(text, 1, i - 1) \o RemoveThink(SubSeq(text, rest, Len(text)))

\* r"\n\s{4,}" matches at position i
IndentedAt(text, i) ==
    /\ i >= 1
    /\ i + 4 <= Len(text)
    /\ CharAt(text, i) = "\n"
    /\ \A k \in 1..4 : IsSpace(CharAt(text, i + k))

\* last position of one r"\n\s{4,}.*" started at i: the whitespace run after
\* the newline (greedy, it may span lines), then the rest of that line
IndentedLineEnd(text, i) ==
    LET nonspace == {k \in (i + 1)..Len(text) : ~IsSpace(CharAt(text, k))}
        w == IF nonspace = {} THEN Len(text) ELSE Least(nonspace) - 1
        newlines == {k \in (w + 1)..Len(text) : CharAt(text, k) = "\n"}
    IN IF newlines = {} THEN Len(text) ELSE Least(newlines) - 1

\* last position of r"(?:\n\s{4,}.*)+" started at i
RECURSIVE IndentedBlockEnd(_, _)
IndentedBlockEnd(text, i) ==
    LET e == IndentedLineEnd(text, i)
    IN IF IndentedAt(text, e + 1) THEN IndentedBlockEnd(text, e + 1) ELSE e

\* the Markdown code fence; a TLA+ string cannot hold a backquote, so the
\* three backquotes of the source are written as three apostrophes
Fence == "'''"

\* re.sub(r"(?:\n\s{4,}.*)+", lambda m: f"\n<fence>java\n{m.group(0)}\n<fence>", text)
RECURSIVE FenceIndentedBlocks(_)
FenceIndentedBlocks(text) ==
    LET starts == {i \in 1..Len(text) : IndentedAt(text, i)}
    IN IF starts = {} THEN text
       ELSE LET i == Least(starts)
                e == IndentedBlockEnd(text, i)
            IN SubSeq(text, 1, i - 1) \o "\n" \o Fence \o "java\n" \o SubSeq(text, i, e) \o "\n" \o Fence
               \o FenceIndentedBlocks(SubSeq(text, e + 1, Len(text)))

\* format_response(raw_text)
format_response(raw_text) ==
    LET cleaned == RemoveThink(raw_text)
    IN Strip(IF Contains(cleaned, "public static") \/ Contains(cleaned, "def ")
             THEN FenceIndentedBlocks(cleaned)
             ELSE cleaned)

(***************************************************************************)
(* utils/gamification.py                                                   *)
(***************************************************************************)

\* get_xp_for_level(level)
get_xp_for_level(level) == level * 100

\* add_xp(progress, amount, session_state): the progress and the reward popup
\* after the call (reward is the session's show_reward)
add_xp(progress, amount, reward) ==
    LET xp == progress.xp + amount
        next_level_xp == get_xp_for_level(progress.level)
    IN IF xp >= next_level_xp
       THEN [progress |-> [progress EXCEPT !.xp = xp, !.level = progress.level + 1],
             show_reward |-> <<[type |-> "level_up", level |-> progress.level + 1]>>]
       ELSE [progress |-> [progress EXCEPT !.xp = xp],
             show_reward |-> reward]

\* update_streak(progress, session_state): the progress and the reward popup
\* after the call. The function reads the clock up to three times: now1 is the
\* day of `today` (line 71), now2 the day `yesterday` is counted back from
\* (line 77), now3 the day of the elif test (line 90). A date is the number of
\* its day, so isoformat() and fromisoformat() are the identity on it.
update_streak(progress, reward, now1, now2, now3) ==
    LET today == now1
        last_date == progress.last_visit
        yesterday == now2 - 1
    IN IF progress.last_visit = <<today>>
       THEN [progress |-> progress, show_reward |-> reward]
       ELSE IF last_date = <<yesterday>>
       THEN LET streak == progress.streak + 1
            IN IF streak % 7 = 0
               THEN [progress |-> [progress EXCEPT !.streak = streak,
                                                   !.xp = progress.xp + 20,
                                                   !.last_visit = <<today>>],
                     show_reward |-> <<[type |-> "streak", days |-> streak]>>]
               ELSE [progress |-> [progress EXCEPT !.streak = streak,
                                                   !.last_visit = <<today>>],
                     show_reward |-> reward]
       ELSE IF last_date # <<now3>>
       THEN [progress |-> [progress EXCEPT !.streak = 1, !.last_visit = <<today>>],
             show_reward |-> reward]
       ELSE [progress |-> [progress EXCEPT !.last_visit = <<today>>],
             show_reward |-> reward]

(***************************************************************************)
(* Initial state.                                                          *)
(***************************************************************************)

\* DEFAULT_PROGRESS of utils/storage.py (the affinity dict is not used by the chat)
DEFAULT_PROGRESS ==
    [level |-> 1, xp |-> 0, streak |-> 0, last_visit |-> <<>>,
     proficiency |-> "Beginner"]

\* the default 'tutor_step' of _ensure_step_state, and what reset_chat assigns
InitialTutorStep == [step_id |-> 0, attempts |-> 0, last_validation_result |-> <<>>]

\* the record of a chat operation (history)
ChatEvent(op, s, user_input, validation_result, outcome, step) ==
    [op |-> op, session |-> s, user_input |-> user_input,
     validation_result |-> validation_result, outcome |-> outcome,
     attempts_before |-> step.attempts, step_id_before |-> step.step_id]

\* the session state init_session_state (app.py) builds, with the chat state
\* _ensure_step_state and initialize_validator add when the chat first renders
InitWith(open) ==
    /\ clock = 1
    /\ sessions = open
    /\ current_persona = [s \in Sessions |-> <<>>]
    /\ chat_history = [s \in Sessions |-> <<>>]
    /\ tutor_step = [s \in Sessions |-> InitialTutorStep]
    /\ user_progress = [s \in Sessions |-> DEFAULT_PROGRESS]
    /\ current_expected_pattern = [s \in Sessions |-> initialize_validator]
    /\ show_reward = [s \in Sessions |-> <<>>]
    /\ crew_call = [s \in Sessions |-> <<>>]
    /\ event = ChatEvent("init", 0, "", <<>>, "", InitialTutorStep)
    /\ failed_submissions = [s \in Sessions |-> 0]
    /\ decision = [s \in Sessions |-> <<>>]

Init == InitWith({1})

(***************************************************************************)
(* components/question_mode.py: the operations.                            *)
(***************************************************************************)

\* variant: every answered turn counts as an attempt
attempts_grow_every_turn(attempts, validation_result) == attempts + 1

\* lines 285-287 of process_user_message: attempts after the agent responded
attempts_after_response(attempts, validation_result) ==
    IF validation_result # <<>> /\ ~validation_result[1]
    THEN attempts + 1
    ELSE attempts

\* variant: storing a validation result also moves to the next step
step_after_validation_advances(step, validation_result) ==
    IF validation_result # <<>>
    THEN [step EXCEPT !.last_validation_result = validation_result,
                      !.step_id = step.step_id + 1]
    ELSE step

\* lines 249-250 of process_user_message: the step state after validation
step_after_validation(step, validation_result) ==
    IF validation_result # <<>>
    THEN [step EXCEPT !.last_validation_result = validation_result]
    ELSE step

\* variant: the step advances but the attempts are kept
step_after_correct_keeps_attempts(step) ==
    [step EXCEPT !.step_id = step.step_id + 1]

\* lines 180-182 of handle_correct_solution: reset attempts, increment step
step_after_correct(step) ==
    [step EXCEPT !.attempts = 0, !.step_id = step.step_id + 1]

\* the record of one scaffolding decision (history)
DecisionOf(s, step) ==
    <<[attempts |-> step.attempts,
       proficiency |-> user_progress[s].proficiency,
       strategy |-> strategy_for(user_progress[s].proficiency, step.attempts),
       failed_before |-> failed_submissions[s],
       same_exercise |-> TRUE]>>

\* variant: the chat of the solved exercise is dropped, the history starts anew
\* with the acknowledgment
handle_correct_solution_new_chat(s, history, step) ==
    LET step2 == step_after_correct(step)
        xp == add_xp(user_progress[s], 15, show_reward[s])
        next_challenge == get_next_challenge(step2.step_id)
        response == "Perfect! Your solution works correctly.\n\n" \o next_challenge
    IN /\ tutor_step' = [tutor_step EXCEPT ![s] = step2]
       /\ user_progress' = [user_progress EXCEPT ![s] = xp.progress]
       /\ show_reward' = [show_reward EXCEPT ![s] = xp.show_reward]
       /\ chat_history' = [chat_history EXCEPT ![s] =
              <<[role |-> "assistant", content |-> response]>>]
       /\ failed_submissions' = [failed_submissions EXCEPT ![s] = 0]
       /\ decision' = [decision EXCEPT ![s] =
              IF @ = <<>> THEN @ ELSE <<[@[1] EXCEPT !.same_exercise = FALSE]>>]
       /\ crew_call' = [crew_call EXCEPT ![s] = <<>>]

\* handle_correct_solution(selected_persona, persona_avatars), entered from
\* process_user_message with the user's message appended (history) and the
\* validation result stored (step)
handle_correct_solution(s, history, step) ==
    LET step2 == step_after_correct(step)
        xp == add_xp(user_progress[s], 15, show_reward[s])
        next_challenge == get_next_challenge(step2.step_id)
        response == "Perfect! Your solution works correctly.\n\n" \o next_challenge
    IN /\ tutor_step' = [tutor_step EXCEPT ![s] = step2]
       /\ user_progress' = [user_progress EXCEPT ![s] = xp.progress]
       /\ show_reward' = [show_reward EXCEPT ![s] = xp.show_reward]
       /\ chat_history' = [chat_history EXCEPT ![s] =
              Append(history, [role |-> "assistant", content |-> response])]
       /\ failed_submissions' = [failed_submissions EXCEPT ![s] = 0]
       /\ decision' = [decision EXCEPT ![s] =
              IF @ = <<>> THEN @ ELSE <<[@[1] EXCEPT !.same_exercise = FALSE]>>]
       /\ crew_call' = [crew_call EXCEPT ![s] = <<>>]

\* the user messages of a history that no reply follows (create_crew raised)
Unanswered(history) ==
    Cardinality({i \in 1..Len(history) :
                    /\ history[i].role = "user"
                    /\ (i = Len(history) \/ history[i + 1].role = "user")})

\* format_response over the replies of the model, tabulated
FormatResponseTable == [r \in ModelReplies |-> format_response(r)]

\* the keys of agents.yaml['agents'] as create_crew loads them (crew.py:82-85);
\* app.py reads the same file once and caches it, so the personas offered to a
\* session are these unless the file changed since
KnownPersonas == Personas

\* a persona the session holds that create_crew does not find
UnknownPersona == "Ghost"

\* create_crew(persona, context) as process_user_message calls it: the reply
\* it returns when the call ends as crew says (proficiency is left at its
\* default, "Beginner")
create_crew_reply(crew) == FormatResponseTable[crew.raw]

\* process_user_message(user_input, selected_persona, persona_avatars, create_crew)
\* in session s; crew is how the call of create_crew ends, if it is made
process_user_message(s, user_input, crew) ==
    /\ s \in sessions
    /\ current_persona[s] # <<>>
    /\ Len(chat_history[s]) + 2 <= MaxHistory
    /\ \E validation_result \in {validate_code(user_input, current_expected_pattern[s])} :
       LET selected_persona == current_persona[s][1]
           history == Append(chat_history[s], [role |-> "user", content |-> user_input])
           step == step_after_validation(tutor_step[s], validation_result)
       IN IF validation_result # <<>> /\ validation_result[1]
          THEN /\ user_progress[s].xp + 15 <= MaxSolved * 15
               /\ handle_correct_solution(s, history, step)
               /\ event' = ChatEvent("turn", s, user_input, validation_result,
                                      "correct", tutor_step[s])
          ELSE LET context == build_efficient_chat_context(
                                  history, selected_persona, step, validation_result)
                   failed == validation_result # <<>> /\ ~validation_result[1]
               IN /\ crew.raised => Unanswered(chat_history[s]) < MaxCrewFailures
                  \* crew.py:85-87: raise ValueError("Unknown persona: ...")
                  /\ selected_persona \notin KnownPersonas => crew.raised
                  /\ crew_call' = [crew_call EXCEPT ![s] =
                         <<[persona |-> selected_persona,
                            tutoring_context |-> context,
                            proficiency |-> "Beginner"]>>]
                  /\ decision' = [decision EXCEPT ![s] = DecisionOf(s, step)]
                  /\ failed_submissions' = [failed_submissions EXCEPT ![s] =
                         IF failed THEN @ + 1 ELSE @]
                  /\ IF crew.raised
                     THEN \* the exception leaves process_user_message
                          /\ chat_history' = [chat_history EXCEPT ![s] = history]
                          /\ tutor_step' = [tutor_step EXCEPT ![s] = step]
                     ELSE /\ chat_history' = [chat_history EXCEPT ![s] =
                                 Append(history, [role |-> "assistant",
                                                  content |-> create_crew_reply(crew)])]
                          /\ tutor_step' = [tutor_step EXCEPT ![s] =
                                 [step EXCEPT !.attempts =
                                     attempts_after_response(step.attempts,
                                                             validation_result)]]
                  /\ event' = ChatEvent("turn", s, user_input, validation_result,
                                         IF crew.raised THEN "raised" ELSE "responded",
                                         tutor_step[s])
                  /\ UNCHANGED <<user_progress, show_reward>>
    /\ UNCHANGED <<clock, sessions, current_persona, current_expected_pattern>>

\* variant: Clear Chat empties the chat of every session
reset_chat_everywhere(s) ==
    /\ s \in sessions
    /\ current_persona[s] # <<>>
    /\ chat_history' = [t \in Sessions |-> <<>>]
    /\ tutor_step' = [t \in Sessions |-> InitialTutorStep]
    /\ failed_submissions' = [failed_submissions EXCEPT ![s] = 0]
    /\ decision' = [decision EXCEPT ![s] =
           IF @ = <<>> THEN @ ELSE <<[@[1] EXCEPT !.same_exercise = FALSE]>>]
    /\ event' = ChatEvent("reset_chat", s, "", <<>>, "", tutor_step[s])
    /\ crew_call' = [crew_call EXCEPT ![s] = <<>>]
    /\ UNCHANGED <<clock, sessions, current_persona, user_progress,
                   current_expected_pattern, show_reward>>

\* reset_chat(), the Clear Chat button of render_chat_header
reset_chat(s) ==
    /\ s \in sessions
    /\ current_persona[s] # <<>>   \* the button is part of the chat page
    /\ chat_history' = [chat_history EXCEPT ![s] = <<>>]
    /\ tutor_step' = [tutor_step EXCEPT ![s] = InitialTutorStep]
    /\ failed_submissions' = [failed_submissions EXCEPT ![s] = 0]
    /\ decision' = [decision EXCEPT ![s] =
           IF @ = <<>> THEN @ ELSE <<[@[1] EXCEPT !.same_exercise = FALSE]>>]
    /\ event' = ChatEvent("reset_chat", s, "", <<>>, "", tutor_step[s])
    /\ crew_call' = [crew_call EXCEPT ![s] = <<>>]
    /\ UNCHANGED <<clock, sessions, current_persona, user_progress,
                   current_expected_pattern, show_reward>>

\* the persona button of render_persona_selector
select_persona(s, persona_name) ==
    /\ s \in sessions
    /\ current_persona' = [current_persona EXCEPT ![s] = <<persona_name>>]
    /\ UNCHANGED <<clock, sessions, chat_history, tutor_step, user_progress,
                   current_expected_pattern, show_reward, crew_call, event,
                   failed_submissions, decision>>

\* the Teaching Style selector of render_sidebar
select_proficiency(s, selected_proficiency) ==
    /\ s \in sessions
    /\ selected_proficiency # user_progress[s].proficiency
    /\ user_progress' = [user_progress EXCEPT ![s].proficiency = selected_proficiency]
    /\ UNCHANGED <<clock, sessions, current_persona, chat_history, tutor_step,
                   current_expected_pattern, show_reward, crew_call, event,
                   failed_submissions, decision>>

Turn == \E s \in Sessions, u \in UserInputs, c \in CrewOutcomes :
            process_user_message(s, u, c)

ClearChat == \E s \in Sessions : reset_chat(s)

SelectPersona == \E s \in Sessions, p \in Personas : select_persona(s, p)

SelectProficiency == \E s \in Sessions, p \in Proficiencies : select_proficiency(s, p)

Next == Turn \/ ClearChat \/ SelectPersona \/ SelectProficiency

Spec == Init /\ [][Next]_vars

(***************************************************************************)
(* The decision function on its own: a session that stands at any attempts *)
(* value 0..MaxAttempts (the answered incorrect submissions that led there *)
(* are not replayed: the decision reads attempts alone), with any          *)
(* proficiency and persona; the strategy is looked up as a turn does.      *)
(***************************************************************************)

InitDecide ==
    \E a \in 0..MaxAttempts, p \in Proficiencies, q \in Personas :
        /\ clock = 1
        /\ sessions = {1}
        /\ current_persona = [s \in Sessions |-> IF s = 1 THEN <<q>> ELSE <<>>]
        /\ chat_history = [s \in Sessions |-> <<>>]
        /\ tutor_step = [s \in Sessions |->
               IF s = 1 THEN [InitialTutorStep EXCEPT !.attempts = a]
               ELSE InitialTutorStep]
        /\ user_progress = [s \in Sessions |->
               IF s = 1 THEN [DEFAULT_PROGRESS EXCEPT !.proficiency = p]
               ELSE DEFAULT_PROGRESS]
        /\ current_expected_pattern = [s \in Sessions |-> initialize_validator]
        /\ show_reward = [s \in Sessions |-> <<>>]
        /\ crew_call = [s \in Sessions |-> <<>>]
        /\ event = ChatEvent("init", 0, "", <<>>, "", InitialTutorStep)
        /\ failed_submissions = [s \in Sessions |-> IF s = 1 THEN a ELSE 0]
        /\ decision = [s \in Sessions |-> <<>>]

\* the strategy lookup of a turn (build_efficient_chat_context), recorded
lookup_strategy(s) ==
    /\ s \in sessions
    /\ current_persona[s] # <<>>
    /\ decision' = [decision EXCEPT ![s] = DecisionOf(s, tutor_step[s])]
    /\ UNCHANGED <<clock, sessions, current_persona, chat_history, tutor_step,
                   user_progress, current_expected_pattern, show_reward,
                   crew_call, event, failed_submissions>>

Decide == \E s \in Sessions : lookup_strategy(s)

NextDecide == Decide \/ SelectPersona \/ SelectProficiency

SpecDecide == InitDecide /\ [][NextDecide]_vars

(***************************************************************************)
(* A session whose persona create_crew does not know: the persona was      *)
(* chosen from the agents app.py cached, and agents.yaml no longer holds   *)
(* it when create_crew loads the file.                                     *)
(***************************************************************************)

InitUnknownPersona ==
    /\ clock = 1
    /\ sessions = {1}
    /\ current_persona = [s \in Sessions |-> IF s = 1 THEN <<UnknownPersona>> ELSE <<>>]
    /\ chat_history = [s \in Sessions |-> <<>>]
    /\ tutor_step = [s \in Sessions |-> InitialTutorStep]
    /\ user_progress = [s \in Sessions |-> DEFAULT_PROGRESS]
    /\ current_expected_pattern = [s \in Sessions |-> initialize_validator]
    /\ show_reward = [s \in Sessions |-> <<>>]
    /\ crew_call = [s \in Sessions |-> <<>>]
    /\ event = ChatEvent("init", 0, "", <<>>, "", InitialTutorStep)
    /\ failed_submissions = [s \in Sessions |-> 0]
    /\ decision = [s \in Sessions |-> <<>>]

NextUnknownPersona == Turn \/ ClearChat \/ SelectProficiency

SpecUnknownPersona == InitUnknownPersona /\ [][NextUnknownPersona]_vars

(***************************************************************************)
(* Sessions whose submissions all fail validation: code in which no method *)
(* header can be found, and code with the expected header and a wrong body.*)
(***************************************************************************)

FailingSubmissions == {NoHeaderCode, WrongCode}

TurnFailing == \E s \in Sessions, u \in FailingSubmissions, c \in CrewOutcomes :
                   process_user_message(s, u, c)

NextFailing == TurnFailing \/ ClearChat \/ SelectPersona \/ SelectProficiency

SpecFailing == Init /\ [][NextFailing]_vars

(***************************************************************************)
(* Two sessions open at once, each with its persona chosen, their          *)
(* operations interleaved in any order; the two chat histories together    *)
(* hold at most MaxSharedHistory entries.                                  *)
(***************************************************************************)

InitTwoSessions ==
    /\ clock = 1
    /\ sessions = Sessions
    /\ current_persona = [s \in Sessions |-> IF s = 1 THEN <<"Nova">> ELSE <<"Batman">>]
    /\ chat_history = [s \in Sessions |-> <<>>]
    /\ tutor_step = [s \in Sessions |-> InitialTutorStep]
    /\ user_progress = [s \in Sessions |-> DEFAULT_PROGRESS]
    /\ current_expected_pattern = [s \in Sessions |-> initialize_validator]
    /\ show_reward = [s \in Sessions |-> <<>>]
    /\ crew_call = [s \in Sessions |-> <<>>]
    /\ event = ChatEvent("init", 0, "", <<>>, "", InitialTutorStep)
    /\ failed_submissions = [s \in Sessions |-> 0]
    /\ decision = [s \in Sessions |-> <<>>]

TurnTwoSessions ==
    \E s \in Sessions, u \in UserInputs, c \in CrewOutcomes :
        /\ Len(chat_history[1]) + Len(chat_history[2]) + 2 <= MaxSharedHistory
        /\ process_user_message(s, u, c)

NextTwoSessions == TurnTwoSessions \/ ClearChat

SpecTwoSessions == InitTwoSessions /\ [][NextTwoSessions]_vars

(***************************************************************************)
(* The progress of a session over the days: every page run calls           *)
(* update_streak (app.py:68), a solved exercise and a filled survey call   *)
(* add_xp, and the days pass. While update_streak runs the day may change  *)
(* between two of its readings of the clock.                               *)
(***************************************************************************)

\* the record of an operation on the progress (history)
ProgressEvent(op, s, now, amount) ==
    [op |-> op, session |-> s, now |-> now, amount |-> amount,
     before |-> user_progress[s], reward_before |-> show_reward[s]]

\* a page run of session s: update_streak(st.session_state.user_progress,
\* st.session_state), its clock readings falling on the days now1 <= now2 <= now3
page_run(s, now1, now2, now3) ==
    /\ s \in sessions
    /\ clock = now1 /\ now1 <= now2 /\ now2 <= now3 /\ now3 <= now1 + 1
    /\ now3 <= MaxDay
    /\ \E r \in {update_streak(user_progress[s], show_reward[s], now1, now2, now3)} :
          /\ r.progress.xp <= MaxXp
          /\ user_progress' = [user_progress EXCEPT ![s] = r.progress]
          /\ show_reward' = [show_reward EXCEPT ![s] = r.show_reward]
    /\ clock' = now3
    /\ event' = ProgressEvent("update_streak", s, <<now1, now2, now3>>, 0)
    /\ UNCHANGED <<sessions, current_persona, chat_history, tutor_step,
                   current_expected_pattern, crew_call, failed_submissions,
                   decision>>

\* add_xp(st.session_state.user_progress, amount, st.session_state) in session
\* s: 15 for a solved exercise (question_mode.py:185), 50 for the survey
\* (pages/Survey.py:149)
earn_xp(s, amount) ==
    /\ s \in sessions
    /\ user_progress[s].xp + amount <= MaxXp
    /\ \E r \in {add_xp(user_progress[s], amount, show_reward[s])} :
          /\ user_progress' = [user_progress EXCEPT ![s] = r.progress]
          /\ show_reward' = [show_reward EXCEPT ![s] = r.show_reward]
    /\ event' = ProgressEvent("add_xp", s, <<clock>>, amount)
    /\ UNCHANGED <<clock, sessions, current_persona, chat_history, tutor_step,
                   current_expected_pattern, crew_call, failed_submissions,
                   decision>>

\* midnight passes while no script runs
next_day ==
    /\ clock < MaxDay
    /\ clock' = clock + 1
    /\ UNCHANGED <<sessions, current_persona, chat_history, tutor_step,
                   user_progress, current_expected_pattern, show_reward,
                   crew_call, event, failed_submissions, decision>>

PageRun == \E s \in Sessions, now1, now2, now3 \in 1..MaxDay : page_run(s, now1, now2, now3)

EarnXp == \E s \in Sessions, amount \in {15, 50} : earn_xp(s, amount)

NextProgress == PageRun \/ EarnXp \/ next_day

SpecProgress == Init /\ [][NextProgress]_vars

(***************************************************************************)
(* The pure functions on their own: from the initial state one function is *)
(* called with inputs drawn from bounded sets, and `event` records the     *)
(* call and what it returned.                                              *)
(***************************************************************************)

\* a chat history of n messages, the student and the tutor alternating
SampleHistory(n) ==
    [i \in 1..n |-> [role |-> IF i % 2 = 1 THEN "user" ELSE "assistant",
                     content |-> "message " \o ToString(i)]]

\* build_efficient_chat_context(chat_history, persona, step_info) called on a
\* history of n messages
call_build_efficient_chat_context(n, persona) ==
    /\ event.op = "init"
    /\ \E context \in {build_efficient_chat_context(
                            SampleHistory(n), persona, InitialTutorStep, <<>>)} :
           event' = [op |-> "build_efficient_chat_context",
                     history |-> SampleHistory(n), persona |-> persona,
                     result |-> context]
    /\ UNCHANGED <<clock, sessions, current_persona, chat_history, tutor_step,
                   user_progress, current_expected_pattern, show_reward,
                   crew_call, failed_submissions, decision>>

CallBuildContext ==
    \E n \in 0..MaxContextMessages, p \in Personas :
        call_build_efficient_chat_context(n, p)

\* validator(student_answer) of java_validator_factory(**cfg) called on code
call_validator(cfg, code) ==
    /\ event.op = "init"
    /\ \E result \in {validator(cfg, code)} :
           event' = [op |-> "validator", cfg |-> cfg, code |-> code,
                     result |-> result]
    /\ UNCHANGED <<clock, sessions, current_persona, chat_history, tutor_step,
                   user_progress, current_expected_pattern, show_reward,
                   crew_call, failed_submissions, decision>>

CallValidator ==
    \E cfg \in ValidatorConfigs, code \in CodeTexts : call_validator(cfg, code)

\* validate_code(user_input, validator), validator built from cfg
call_validate_code(code, cfg) ==
    /\ event.op = "init"
    /\ \E result \in {validate_code(code, <<cfg>>)} :
           event' = [op |-> "validate_code", cfg |-> cfg, code |-> code,
                     result |-> result]
    /\ UNCHANGED <<clock, sessions, current_persona, chat_history, tutor_step,
                   user_progress, current_expected_pattern, show_reward,
                   crew_call, failed_submissions, decision>>

CallValidateCode ==
    \E cfg \in ValidatorConfigs, code \in CodeTexts : call_validate_code(code, cfg)

\* signature_check(student_code, method_name, return_type, param_types)
call_signature_check(code, method_name, return_type, param_types) ==
    /\ event.op = "init"
    /\ \E result \in {signature_check(code, method_name, return_type, param_types)} :
           event' = [op |-> "signature_check", code |-> code,
                     method_name |-> method_name, return_type |-> return_type,
                     param_types |-> param_types, result |-> result]
    /\ UNCHANGED <<clock, sessions, current_persona, chat_history, tutor_step,
                   user_progress, current_expected_pattern, show_reward,
                   crew_call, failed_submissions, decision>>

CallSignatureCheck ==
    \E code \in SignatureTexts, m \in ExpectedNames, r \in ExpectedReturnTypes,
       p \in ExpectedParamTypes : call_signature_check(code, m, r, p)

\* content_check(student_code, required_tokens, forbidden_tokens)
call_content_check(code, required_tokens, forbidden_tokens) ==
    /\ event.op = "init"
    /\ \E result \in {content_check(code, required_tokens, forbidden_tokens)} :
           event' = [op |-> "content_check", code |-> code,
                     required_tokens |-> required_tokens,
                     forbidden_tokens |-> forbidden_tokens, result |-> result]
    /\ UNCHANGED <<clock, sessions, current_persona, chat_history, tutor_step,
                   user_progress, current_expected_pattern, show_reward,
                   crew_call, failed_submissions, decision>>

CallContentCheck ==
    \E code \in CodeTexts, required \in RequiredTokenLists,
       forbidden \in ForbiddenTokenLists :
        call_content_check(code, required, forbidden)

\* looks_like_code(text)
call_looks_like_code(text) ==
    /\ event.op = "init"
    /\ \E result \in {looks_like_code(text)} :
           event' = [op |-> "looks_like_code", text |-> text, result |-> result]
    /\ UNCHANGED <<clock, sessions, current_persona, chat_history, tutor_step,
                   user_progress, current_expected_pattern, show_reward,
                   crew_call, failed_submissions, decision>>

CallLooksLikeCode == \E text \in MessageTexts : call_looks_like_code(text)

\* format_response(raw_text)
call_format_response(raw_text) ==
    /\ event.op = "init"
    /\ \E result \in {format_response(raw_text)} :
           event' = [op |-> "format_response", raw_text |-> raw_text,
                     result |-> result]
    /\ UNCHANGED <<clock, sessions, current_persona, chat_history, tutor_step,
                   user_progress, current_expected_pattern, show_reward,
                   crew_call, failed_submissions, decision>>

CallFormatResponse == \E raw \in ModelRawTexts : call_format_response(raw)

NextPure ==
    \/ CallFormatResponse
    \/ CallLooksLikeCode
    \/ CallBuildContext
    \/ CallValidator
    \/ CallValidateCode
    \/ CallSignatureCheck
    \/ CallContentCheck

SpecPure == Init /\ [][NextPure]_vars

(***************************************************************************)
(* Properties.                                                             *)
(***************************************************************************)

\* the escalation level a strategy text stands for
LevelOf(strategy) ==
    CASE strategy = StrategyFirst -> "Guide"
      [] strategy = StrategySecond -> "Hint"
      [] strategy = StrategyThird -> "PartialSolution"
      [] strategy = StrategyFourth -> "FullSolution"
      [] strategy = StrategyFifthPlus -> "DeepUnderstanding"
      [] OTHER -> "none"

FourLevels == <<"Guide", "Hint", "PartialSolution", "FullSolution">>

FiveLevels == FourLevels \o <<"DeepUnderstanding">>

\* level1 <= level2 in the order `levels` lists; a level it does not list is
\* not comparable
LevelLeq(levels, level1, level2) ==
    \E i, j \in 1..Len(levels) :
        levels[i] = level1 /\ levels[j] = level2 /\ i <= j

\* position of a level among the five strategies of the code (0 if none)
Rank(level) ==
    IF \E k \in 1..Len(FiveLevels) : FiveLevels[k] = level
    THEN CHOOSE k \in 1..Len(FiveLevels) : FiveLevels[k] = level
    ELSE 0

\* the text of a named part of a composed context, and its position
PartIndex(context, name) == CHOOSE k \in 1..Len(context) : context[k].part = name

PartText(context, name) == context[PartIndex(context, name)].text

\* the step is a turn of session s (a user message was appended)
TurnStep(s) ==
    /\ event'.op = "turn"
    /\ event'.session = s
    /\ chat_history'[s] # chat_history[s]

\* the step is Clear Chat in session s
ResetStep(s) ==
    /\ event'.op = "reset_chat"
    /\ event'.session = s
    /\ chat_history'[s] = <<>>
    /\ UNCHANGED <<current_persona, user_progress>>

\* the validation result of the step's turn is correct / incorrect
ValidatedCorrect(result) == result # <<>> /\ result[1]

ValidatedIncorrect(result) == result # <<>> /\ ~result[1]

\* C1: over turns and Clear Chat, attempts changes only by growing by exactly 1
\* on a turn whose validation result is incorrect, or by being set to 0 when a
\* submission validates as correct or the chat is reset (which always set it to
\* 0); no other step changes it, and it is never negative.
C1_AttemptsChangeOnlyTwoWays ==
    /\ \A s \in Sessions : tutor_step[s].attempts >= 0
    /\ [][\A s \in Sessions :
            LET before == tutor_step[s].attempts
                after == tutor_step'[s].attempts
                result == event'.validation_result
                zeroing == (TurnStep(s) /\ ValidatedCorrect(result)) \/ ResetStep(s)
            IN /\ after >= 0
               /\ after # before =>
                      \/ after = before + 1 /\ TurnStep(s) /\ ValidatedIncorrect(result)
                      \/ after = 0 /\ zeroing
               /\ zeroing => after = 0]_vars

\* C1 witness: an incorrect submission was answered and took attempts from 1 to 2
C1_Witness ==
    \E s \in Sessions :
        /\ event.op = "turn" /\ event.session = s
        /\ ValidatedIncorrect(event.validation_result)
        /\ event.outcome = "responded"
        /\ event.attempts_before = 1
        /\ tutor_step[s].attempts = 2

\* C2: a turn whose message does not look like code gets no validation result
\* (neither check runs, the stored result stays), leaves attempts unchanged, and
\* still composes a context whose strategy is the one of the current attempts.
C2_ProseTurnNotValidated ==
    [][\A s \in Sessions :
          (TurnStep(s) /\ ~message_looks_like_code(event'.user_input)) =>
              /\ event'.validation_result = <<>>
              /\ tutor_step'[s].last_validation_result
                     = tutor_step[s].last_validation_result
              /\ tutor_step'[s].attempts = tutor_step[s].attempts
              /\ crew_call'[s] # <<>>
              /\ PartText(crew_call'[s][1].tutoring_context, "strategy")
                     = "YOUR SCAFFOLDING STRATEGY FOR THIS ATTEMPT:\n"
                       \o get_scaffolding_strategy(tutor_step[s].attempts)]_vars

\* C2 witness: after one failed attempt, a prose message was answered
C2_Witness ==
    \E s \in Sessions :
        /\ event.op = "turn" /\ event.session = s
        /\ event.user_input = ProseInput
        /\ event.outcome = "responded"
        /\ event.attempts_before = 1
        /\ tutor_step[s].attempts = 1
        /\ crew_call[s] # <<>>

\* C3: after a submission that validates as correct, attempts is 0 and step_id
\* is its previous value plus exactly 1.
C3_CorrectResetsAndAdvances ==
    \A s \in Sessions :
        (event.op = "turn" /\ event.session = s
         /\ ValidatedCorrect(event.validation_result)) =>
            /\ tutor_step[s].attempts = 0
            /\ tutor_step[s].step_id = event.step_id_before + 1

\* C3 witness: a correct submission after two failed attempts
C3_Witness ==
    \E s \in Sessions :
        /\ event.op = "turn" /\ event.session = s
        /\ ValidatedCorrect(event.validation_result)
        /\ event.attempts_before = 2
        /\ tutor_step[s].attempts = 0
        /\ tutor_step[s].step_id = 1

\* the level the lookup gives for an attempts value
LevelAt(attempts) == LevelOf(get_scaffolding_strategy(attempts))

\* C4 (amended): the level is non-decreasing in attempts under the order
\* Guide < Hint < PartialSolution < FullSolution < DeepUnderstanding, the
\* fifth being the level of the strategy the code returns from attempts 4 on.
C4_LevelMonotoneFiveLevels ==
    \A s \in Sessions :
        decision[s] # <<>> =>
            \A a \in 0..MaxAttempts :
                /\ a <= decision[s][1].attempts =>
                       LevelLeq(FiveLevels, LevelAt(a), LevelOf(decision[s][1].strategy))
                /\ a >= decision[s][1].attempts =>
                       LevelLeq(FiveLevels, LevelOf(decision[s][1].strategy), LevelAt(a))

\* C4 as stated: the level is non-decreasing in attempts under the order
\* Guide < Hint < PartialSolution < FullSolution.
C4_AsStated ==
    \A s \in Sessions :
        decision[s] # <<>> =>
            \A a \in 0..MaxAttempts :
                /\ a <= decision[s][1].attempts =>
                       LevelLeq(FourLevels, LevelAt(a), LevelOf(decision[s][1].strategy))
                /\ a >= decision[s][1].attempts =>
                       LevelLeq(FourLevels, LevelOf(decision[s][1].strategy), LevelAt(a))

\* C4 witness: a decision at attempts 4, past the working solution
C4_Witness ==
    \E s \in Sessions :
        /\ decision[s] # <<>>
        /\ decision[s][1].attempts = 4
        /\ LevelOf(decision[s][1].strategy) = "DeepUnderstanding"

\* C5 (amended): attempts 0 gives Guide, 1 Hint, 2 PartialSolution, 3
\* FullSolution, and every attempts >= 4 the fifth strategy (Deep Understanding).
C5_LevelTableWithFifth ==
    \A s \in Sessions :
        decision[s] # <<>> =>
            LevelOf(decision[s][1].strategy) =
                CASE decision[s][1].attempts = 0 -> "Guide"
                  [] decision[s][1].attempts = 1 -> "Hint"
                  [] decision[s][1].attempts = 2 -> "PartialSolution"
                  [] decision[s][1].attempts = 3 -> "FullSolution"
                  [] OTHER -> "DeepUnderstanding"

\* C5 as stated: attempts 0 gives Guide, 1 Hint, 2 PartialSolution and every
\* attempts >= 3 FullSolution; there is no fifth level.
C5_AsStated ==
    \A s \in Sessions :
        decision[s] # <<>> =>
            LevelOf(decision[s][1].strategy) =
                CASE decision[s][1].attempts = 0 -> "Guide"
                  [] decision[s][1].attempts = 1 -> "Hint"
                  [] decision[s][1].attempts = 2 -> "PartialSolution"
                  [] OTHER -> "FullSolution"

\* C5 witness: a decision at the largest attempts value of the model
C5_Witness ==
    \E s \in Sessions :
        /\ decision[s] # <<>>
        /\ decision[s][1].attempts = MaxAttempts
        /\ decision[s][1].strategy = StrategyFifthPlus

\* the user messages of a history
UserMessages(history) ==
    Cardinality({i \in 1..Len(history) : history[i].role = "user"})

\* C6 as stated: within one exercise the level of consecutive composing turns
\* never goes backward and never advances by more than one; and from a fresh
\* exercise, consecutive validated-incorrect submissions take the level through
\* Guide, Hint, PartialSolution, FullSolution, one level per failed attempt.
C6_AsStated ==
    [][\A s \in Sessions :
          (TurnStep(s) /\ event'.outcome # "correct") =>
              /\ (decision[s] # <<>> /\ decision[s][1].same_exercise) =>
                     LET was == Rank(LevelOf(decision[s][1].strategy))
                         now == Rank(LevelOf(decision'[s][1].strategy))
                     IN now = was \/ now = was + 1
              /\ (/\ tutor_step[s].step_id = 0
                  /\ UserMessages(chat_history'[s]) = failed_submissions'[s]
                  /\ failed_submissions'[s] <= Len(FourLevels)) =>
                     LevelOf(decision'[s][1].strategy)
                         = FourLevels[failed_submissions'[s]]]_vars

\* C7: a context that carries the working-solution strategy is composed only
\* when at least 3 validated-incorrect submissions were recorded on the exercise
\* since the last correct submission or reset.
C7_FullSolutionAfterThreeFailures ==
    \A s \in Sessions :
        (/\ crew_call[s] # <<>>
         /\ PartText(crew_call[s][1].tutoring_context, "strategy")
                = "YOUR SCAFFOLDING STRATEGY FOR THIS ATTEMPT:\n" \o StrategyFourth) =>
            /\ decision[s] # <<>>
            /\ decision[s][1].failed_before >= 3

\* C7 witness: the working-solution context of the fourth turn
C7_Witness ==
    \E s \in Sessions :
        /\ crew_call[s] # <<>>
        /\ PartText(crew_call[s][1].tutoring_context, "strategy")
               = "YOUR SCAFFOLDING STRATEGY FOR THIS ATTEMPT:\n" \o StrategyFourth
        /\ decision[s][1].failed_before = 3

\* the least attempts value at which a session of the proficiency reaches level
\* (MaxAttempts + 1 if it does not within the model)
ThresholdOf(proficiency, level) ==
    LET reached == {a \in 0..MaxAttempts :
                       Rank(LevelOf(strategy_for(proficiency, a))) >= Rank(level)}
    IN IF reached = {} THEN MaxAttempts + 1 ELSE Least(reached)

\* C8 (amended): the attempt thresholds of the levels are the same for every
\* proficiency (Guide 0, Hint 1, PartialSolution 2, FullSolution 3), and each
\* decision is the one a Beginner session gets at the same attempts.
C8_ThresholdsSameForEveryProficiency ==
    /\ \A p \in Proficiencies : \A k \in 1..Len(FourLevels) :
           ThresholdOf(p, FourLevels[k]) = k - 1
    /\ \A s \in Sessions :
           decision[s] # <<>> =>
               decision[s][1].strategy = strategy_for("Beginner", decision[s][1].attempts)

\* C8 as stated: for Advanced every level is reached at an attempts value no
\* higher than for Beginner, and at least one level at a strictly lower one.
C8_AsStated ==
    \A s \in sessions :
        LET p == user_progress[s].proficiency
        IN p = "Advanced" =>
               /\ \A k \in 1..Len(FourLevels) :
                      ThresholdOf(p, FourLevels[k]) <= ThresholdOf("Beginner", FourLevels[k])
               /\ \E k \in 1..Len(FourLevels) :
                      ThresholdOf(p, FourLevels[k]) < ThresholdOf("Beginner", FourLevels[k])

\* C8 witness: an Advanced session gets the working solution at attempts 3
C8_Witness ==
    \E s \in Sessions :
        /\ decision[s] # <<>>
        /\ decision[s][1].proficiency = "Advanced"
        /\ decision[s][1].attempts = 3
        /\ decision[s][1].strategy = StrategyFourth

\* the content of the last user message of a history
LastUserMessage(history) ==
    history[Greatest({i \in 1..Len(history) : history[i].role = "user"})].content

\* the named parts of a context stand in the given order
InOrder(context, names) ==
    \A i, j \in 1..Len(names) :
        i < j => PartIndex(context, names[i]) < PartIndex(context, names[j])

\* C10 (amended): in every composed context the sections stand in the order
\* persona preamble, conversation history, validation feedback, rules of the
\* current level, critical rules, latest student input; the latest input is
\* the last message of the student.
C10_HistoryBeforeRules ==
    \A s \in Sessions :
        crew_call[s] # <<>> =>
            /\ InOrder(crew_call[s][1].tutoring_context,
                       <<"persona", "conversation", "feedback", "strategy",
                         "rules", "latest_message">>)
            /\ PartText(crew_call[s][1].tutoring_context, "latest_message")
                   = "8. The student's latest message was: \""
                     \o LastUserMessage(chat_history[s]) \o "\""

\* C10 as stated: the sections stand in the order persona preamble, rules of
\* the current level, conversation history, validation feedback, latest input.
C10_AsStated ==
    \A s \in Sessions :
        crew_call[s] # <<>> =>
            InOrder(crew_call[s][1].tutoring_context,
                    <<"persona", "strategy", "conversation", "feedback",
                      "latest_message">>)

\* C10 witness: the context of a rejected submission that follows an earlier turn
C10_Witness ==
    \E s \in Sessions :
        /\ crew_call[s] # <<>>
        /\ Len(chat_history[s]) >= 3
        /\ ValidatedIncorrect(event.validation_result)
        /\ PartText(crew_call[s][1].tutoring_context, "feedback") # ""

\* the line build_conversation_history writes for message i of a history
HistoryLine(history, persona, i) ==
    (IF history[i].role = "user" THEN "Student" ELSE persona)
    \o ": " \o history[i].content \o "\n\n"

\* the call recorded in `event` is a call of build_efficient_chat_context
ContextCall == event.op = "build_efficient_chat_context"

\* C11 (amended): the composed context contains every message of the chat
\* history it is given, however long the history is: its conversation part
\* holds the line of each message, the oldest included, and no turn is dropped.
C11_ContextHoldsWholeHistory ==
    ContextCall =>
        \A i \in 1..Len(event.history) :
            Contains(PartText(event.result, "conversation"),
                     HistoryLine(event.history, event.persona, i))

\* C11 as stated: there is a window of N turns (N at most 10, two messages a
\* turn) such that the messages older than the last N turns are absent from
\* the context.
C11_AsStated ==
    ContextCall =>
        \E N \in 1..10 :
            \A i \in 1..(Len(event.history) - 2 * N) :
                ~Contains(PartText(event.result, "conversation"),
                          HistoryLine(event.history, event.persona, i))

\* a history longer than ten turns was composed
C11_Witness ==
    /\ ContextCall
    /\ Len(event.history) > 20
    /\ Contains(PartText(event.result, "conversation"), "Student: message 1\n\n")

\* the last entry of the chat history of session s is a reply of the tutor
\* that begins with prefix
LastReplyBegins(s, prefix) ==
    /\ chat_history[s] # <<>>
    /\ chat_history[s][Len(chat_history[s])].role = "assistant"
    /\ OccursAt(chat_history[s][Len(chat_history[s])].content, prefix, 1)

\* C12 as stated: after a turn whose create_crew call failed, the turn has
\* completed: the error did not leave process_user_message, and the chat
\* history ends with a demo-mode reply of the tutor.
C12_AsStated ==
    \A s \in sessions :
        (event.op = "turn" /\ event.session = s /\ event.outcome = "raised")
            => LastReplyBegins(s, "[Demo Mode]")

\* the step is a turn of session s in which create_crew raised
\* 'Unknown persona'
UnknownPersonaTurn(s) ==
    /\ event' # event
    /\ event'.op = "turn"
    /\ event'.session = s
    /\ event'.outcome = "raised"
    /\ current_persona[s] # <<>>
    /\ current_persona[s][1] \notin KnownPersonas

\* C13 as stated: a turn in which create_crew raises 'Unknown persona' leaves
\* chat_history and tutor_step (attempts, step_id, last_validation_result) as
\* they were before the turn.
C13_AsStated ==
    [][\A s \in Sessions :
          UnknownPersonaTurn(s) =>
              /\ chat_history'[s] = chat_history[s]
              /\ tutor_step'[s] = tutor_step[s]]_vars

\* C14 as stated: a turn whose submission validates as correct selects the
\* next exercise: the validator later submissions of the session are checked
\* against is no longer the validator of the exercise just solved.
C14_AsStated ==
    [][\A s \in Sessions :
          (TurnStep(s) /\ event'.outcome = "correct")
              => /\ tutor_step'[s].step_id = tutor_step[s].step_id + 1
                 /\ current_expected_pattern'[s] # current_expected_pattern[s]]_vars

\* the checks a configuration asks for
SignatureConfigured(cfg) ==
    cfg.method_name # "" \/ cfg.return_type # "" \/ cfg.param_types # <<>>

ContentConfigured(cfg) == cfg.required_tokens # <<>> \/ cfg.forbidden_tokens # <<>>

AstConfigured(cfg) == cfg.use_ast_check /\ cfg.method_name # ""

C16_AsStated ==
    (event.op = "validate_code" /\ ValidatedCorrect(event.result))
        => event.result = <<TRUE, "">>

\* re.search(sig_re, code) finds a method header in the text
HeaderFound == [u \in UserInputs \cup CodeTexts |->
                   SigSearch(NormalizeWhitespace(u)).found]

Header(code) == SigSearch(NormalizeWhitespace(code))

\* expected occurs in the type tokens of at least one extracted parameter
SomeParamHasType(code, expected) ==
    \E i \in 1..Len(TypesFound(Strip(Header(code).params))) :
        Contains(TypesFound(Strip(Header(code).params))[i], expected)

\* C18: signature_check returns true exactly when a method header is found in
\* the code, and method_name is unset or equals the extracted name, and
\* return_type is unset or is a substring of the extracted return-type text,
\* and param_types is unset or each expected type is a substring of the type
\* tokens of at least one extracted parameter, in any order; so the sum method
\* with {sum, int, [int, int]} gives true and `public void sum()` with
\* {sum, int} gives false.
C18_SignatureCheckExact ==
    event.op = "signature_check" =>
        /\ event.result =
              (/\ Header(event.code).found
               /\ event.method_name = "" \/ Header(event.code).name = event.method_name
               /\ event.return_type = ""
                      \/ Contains(NormalizeWhitespace(Header(event.code).ret),
                                  event.return_type)
               /\ \A k \in 1..Len(event.param_types) :
                      SomeParamHasType(event.code, event.param_types[k]))
        /\ (/\ event.code = CorrectCode /\ event.method_name = "sum"
             /\ event.return_type = "int" /\ event.param_types = <<"int", "int">>)
                => event.result = TRUE
        /\ (/\ event.code = VoidSum /\ event.method_name = "sum"
             /\ event.return_type = "int" /\ event.param_types = <<>>)
                => event.result = FALSE
        /\ (/\ event.code = SwappedParams /\ event.method_name = "sum"
             /\ event.return_type = "int" /\ event.param_types = <<"int", "List">>)
                => event.result = TRUE

\* signature_check accepted the method whose parameters come in the other
\* order than the expected types
C18_Witness ==
    /\ event.op = "signature_check"
    /\ event.code = SwappedParams
    /\ event.method_name = "sum"
    /\ event.return_type = "int"
    /\ event.param_types = <<"int", "List">>
    /\ event.result = TRUE

\* token occurs in code, letters compared without regard to case
OccursIgnoringCase(code, token) ==
    \E i \in 1..(Len(code) + 1) :
        /\ i + Len(token) - 1 <= Len(code)
        /\ \A j \in 1..Len(token) :
               LowerChar(CharAt(code, i + j - 1)) = LowerChar(CharAt(token, j))

\* C19: content_check returns true exactly when every required token occurs in
\* the code and no forbidden token occurs in it, both compared
\* case-insensitively as substrings; with no tokens configured it returns true.
C19_ContentCheckExact ==
    event.op = "content_check" =>
        /\ event.result =
              (/\ \A k \in 1..Len(event.required_tokens) :
                      OccursIgnoringCase(event.code, event.required_tokens[k])
               /\ \A k \in 1..Len(event.forbidden_tokens) :
                      ~OccursIgnoringCase(event.code, event.forbidden_tokens[k]))
        /\ (event.required_tokens = <<>> /\ event.forbidden_tokens = <<>>)
               => event.result = TRUE

\* content_check found the required token Return in code that writes return
\* and rejected the code for the forbidden token STREAM, which it writes stream
C19_Witness ==
    /\ event.op = "content_check"
    /\ event.code = StreamCode
    /\ event.required_tokens = <<"Return">>
    /\ event.forbidden_tokens = <<"STREAM">>
    /\ OccursIgnoringCase(StreamCode, "Return")
    /\ ~Contains(StreamCode, "STREAM")
    /\ event.result = FALSE

\* the markers the claim lists, and the markers the amended claim lists
ClaimedMarkers == {"public", "private", "return", "void", "{", "}", "(", ")", ";"}

AmendedMarkers == {"public", "private", "return", "void", "{", "list", "stream",
                   "int ", "=", ";", "class", "import"}

\* C20 (amended): looks_like_code(text) returns true exactly when the text,
\* letters compared without regard to case, contains one of the markers public,
\* private, return, void, '{', list, stream, 'int ' (with its blank), '=', ';',
\* class, import. '}', '(' and ')' are no markers: a message whose only
\* punctuation is '(' ')' or '}' is not treated as code, and prose that holds
\* the word list is.
C20_MarkersOfTheCode ==
    event.op = "looks_like_code" =>
        /\ event.result =
              (\E marker \in AmendedMarkers : OccursIgnoringCase(event.text, marker))
        /\ event.text \in {OnlyParen, OnlyBrace, ProseInput} => event.result = FALSE
        /\ event.text \in {ProseWithList, NoHeaderCode, CorrectCode} => event.result = TRUE

\* C20 as stated: looks_like_code(text) is true if the text contains any of
\* public, private, return, void, '{', '}', '(', ')', ';', and false for prose
\* that contains none of them.
C20_AsStated ==
    event.op = "looks_like_code" =>
        event.result =
            (\E marker \in ClaimedMarkers : OccursIgnoringCase(event.text, marker))

\* looks_like_code was called on a message whose only marker of the claim is
\* '(' and did not take it for code
C20_Witness ==
    /\ event.op = "looks_like_code"
    /\ event.text = OnlyParen
    /\ \E marker \in ClaimedMarkers : Contains(OnlyParen, marker)
    /\ event.result = FALSE

\* what a strategy text says about showing code
ForbidsAnyCode(text) ==
    /\ Contains(text, "DO NOT provide any code yet")
    /\ Contains(text, "FORBIDDEN: Do NOT show ANY code structure or method templates")

ForbidsCompleteCode(text) ==
    /\ Contains(text, "NO complete code")
    /\ Contains(text, "FORBIDDEN: Do NOT show the method body or return statement")

AllowsSignature(text) == Contains(text, "Show ONLY the method signature")

\* what the strategy texts of the first two interactions say, tabulated
StrategyForbidsAnyCode ==
    (0 :> ForbidsAnyCode(StrategyFirst)) @@ (1 :> ForbidsAnyCode(StrategySecond))

StrategyForbidsCompleteCode ==
    (0 :> ForbidsCompleteCode(StrategyFirst))
    @@ (1 :> ForbidsCompleteCode(StrategySecond))

StrategyAllowsSignature ==
    (0 :> AllowsSignature(StrategyFirst)) @@ (1 :> AllowsSignature(StrategySecond))

\* the last turn of session s composed a context for a Beginner at `attempts`
BeginnerContextAt(s, attempts) ==
    /\ event.op = "turn" /\ event.session = s
    /\ event.attempts_before = attempts
    /\ crew_call[s] # <<>>
    /\ decision[s] # <<>>
    /\ decision[s][1].proficiency = "Beginner"

\* the strategy part of the context of the last turn of session s is the
\* text of the first (attempts 0) or second (attempts 1) interaction under its
\* heading
StrategyPartIs(s, attempts) ==
    PartText(crew_call[s][1].tutoring_context, "strategy")
        = "YOUR SCAFFOLDING STRATEGY FOR THIS ATTEMPT:\n"
          \o (IF attempts = 0 THEN StrategyFirst ELSE StrategySecond)

HasThinkBlock(text) ==
    \E i \in 1..Len(text) :
        /\ OccursAt(text, ThinkOpen, i)
        /\ \E j \in (i + Len(ThinkOpen))..Len(text) : OccursAt(text, ThinkClose, j)

\* C22 as stated: the reply format_response produces holds no block delimited
\* by <think> and a following </think>, whatever the text of the model.
C22_AsStated ==
    event.op = "format_response" => ~HasThinkBlock(event.result)

\* C23: with two sessions taking turns in any interleaving, a turn, a correct
\* solution or a chat reset in one session never changes the other session's
\* tutor_step (step_id, attempts, last_validation_result) or chat_history: a
\* step changes the chat state of at most one session, the one operated on.
C23_SessionsDoNotInterfere ==
    [][\A s \in Sessions :
          (tutor_step'[s] # tutor_step[s] \/ chat_history'[s] # chat_history[s])
              => /\ event'.op \in {"turn", "reset_chat"}
                 /\ event'.session = s
                 /\ \A t \in Sessions \ {s} :
                        /\ tutor_step'[t] = tutor_step[t]
                        /\ chat_history'[t] = chat_history[t]]_vars

\* session 1 holds a failed attempt and session 2 has just solved its exercise
C23_Witness ==
    /\ sessions = {1, 2}
    /\ tutor_step[1].attempts = 1
    /\ Len(chat_history[1]) = 2
    /\ event.op = "turn" /\ event.session = 2 /\ event.outcome = "correct"
    /\ tutor_step[2].step_id = 1
    /\ Len(chat_history[2]) = 2

\* C24 as stated: a validated-incorrect submission increases attempts by 1 in
\* its turn, whether the create_crew call of the turn returns or fails.
C24_AsStated ==
    [][\A s \in Sessions :
          (TurnStep(s) /\ ValidatedIncorrect(event'.validation_result))
              => tutor_step'[s].attempts = tutor_step[s].attempts + 1]_vars

\* C25 as stated: create_crew is run with the proficiency the session had
\* selected when the turn was taken, not with the Beginner default.
C25_AsStated ==
    \A s \in Sessions :
        (crew_call[s] # <<>> /\ decision[s] # <<>>)
            => crew_call[s][1].proficiency = decision[s][1].proficiency

\* before is a proper prefix of after
ProperPrefix(before, after) ==
    /\ Len(after) > Len(before)
    /\ SubSeq(after, 1, Len(before)) = before

\* C26: the conversation history is append-only between chat resets: every
\* turn (correct, incorrect or non-code) keeps all existing entries unchanged
\* and in order as a prefix of the new history, and only reset_chat removes
\* entries.
C26_HistoryAppendOnly ==
    [][\A s \in Sessions :
          /\ TurnStep(s) => ProperPrefix(chat_history[s], chat_history'[s])
          /\ chat_history'[s] # chat_history[s] =>
                 \/ ProperPrefix(chat_history[s], chat_history'[s])
                 \/ /\ event'.op = "reset_chat" /\ event'.session = s
                    /\ chat_history'[s] = <<>>]_vars

\* a correct submission was acknowledged after an earlier answered message,
\* and the history holds all four entries
C26_Witness ==
    \E s \in Sessions :
        /\ event.op = "turn" /\ event.session = s
        /\ event.outcome = "correct"
        /\ Len(chat_history[s]) = 4
        /\ chat_history[s][1].role = "user"
        /\ chat_history[s][2].role = "assistant"
        /\ chat_history[s][3] = [role |-> "user", content |-> CorrectCode]

C28_AsStated ==
    (event.op = "validator" /\ AstConfigured(event.cfg))
        => event.result =
              (/\ SignatureConfigured(event.cfg) =>
                      signature_check(event.code, event.cfg.method_name,
                                      event.cfg.return_type, event.cfg.param_types)
               /\ ContentConfigured(event.cfg) =>
                      content_check(event.code, event.cfg.required_tokens,
                                    event.cfg.forbidden_tokens))

\* the last operation of session s was update_streak, called on day `today`
\* (the day of its first reading of the clock)
StreakCall(s, today) ==
    /\ event.op = "update_streak"
    /\ event.session = s
    /\ event.now[1] = today

\* C29 as stated: a call of update_streak on a day equal to last_visit leaves
\* streak, xp, last_visit and show_reward unchanged; the first call on a new
\* day sets streak to previous + 1 if the last visit was yesterday and to 1
\* otherwise.
C29_AsStated ==
    \A s \in Sessions, today \in 1..MaxDay :
        StreakCall(s, today) =>
            /\ event.before.last_visit = <<today>>
                   => /\ user_progress[s] = event.before
                      /\ show_reward[s] = event.reward_before
            /\ event.before.last_visit # <<today>>
                   => /\ user_progress[s].last_visit = <<today>>
                      /\ user_progress[s].streak =
                             IF event.before.last_visit = <<today - 1>>
                             THEN event.before.streak + 1
                             ELSE 1

\* C30 as stated: after any sequence of add_xp and update_streak calls from
\* level 1 with 0 xp, xp < get_xp_for_level(level) = level * 100.
C30_AsStated ==
    \A s \in sessions :
        /\ get_xp_for_level(user_progress[s].level) = user_progress[s].level * 100
        /\ user_progress[s].xp < get_xp_for_level(user_progress[s].level)

====
